---- MODULE Spec2Model ----
(***************************************************************************)
(* Rice irrigation module of LISFLOOD                                      *)
(* (src/src/lisflood/hydrological_modules/riceirrigation.py).              *)
(*                                                                         *)
(* Every array operation of the module is element-wise over the mask, so   *)
(* the model follows one cell of each array.                               *)
(*                                                                         *)
(* Numbers.  The code computes in floating point; the model computes the   *)
(* same expressions exactly, in fixed point:                               *)
(*   - water depths (W1, WS1, WFC1, EWRef, ESAct, Ta, RiceFlooding,        *)
(*     RicePercolation) are whole millimetres;                             *)
(*   - the fractions RiceFraction and SoilFraction are counted in halves   *)
(*     (0, 1, 2 stand for 0.0, 0.5, 1.0);                                  *)
(*   - MMtoM3 and DtDay are whole numbers, M3toMM is counted in            *)
(*     thousandths (1 stands for 0.001);                                   *)
(*   - volumes (all ...M3 values) are counted in twentieths of a m3, so    *)
(*     that the factor 0.1 and the half fractions stay exact;              *)
(*   - UZ is counted in 1/20000 mm (twentieths of m3 times thousandths     *)
(*     per m3).                                                            *)
(***************************************************************************)
EXTENDS Integers, FiniteSets, Sequences, TLC

VARIABLES
    pc,        \* where the run is: constructed, failed, initialised, forced, stepped
    option,    \* LisSettings.instance().options: riceIrrigation, wateruse
    maps,      \* the six attributes initial() loads with loadmap
    forcing,   \* the self.var fields the surrounding model supplies each step
    PaddyRiceWaterAbstractionFromSurfaceWaterM3,
    UZ,        \* self.var.UZ.values[iveg]
    local,     \* the temporaries of the latest dynamic() call
    tally      \* observer: days of the running year with phase 1 / phase 2 active

vars == <<pc, option, maps, forcing, PaddyRiceWaterAbstractionFromSurfaceWaterM3,
          UZ, local, tally>>

---------------------------------------------------------------------------
(* Bounds and constants *)

MaxSoil == 1
MaxEva == 1
MaxUZ == 1

DaysInYear == 365

\* an attribute of self.var that has not been assigned yet
Unset == -1

\* the inf or nan that a floating-point division by zero yields
NonFinite == -1000000000

Days == 1..DaysInYear

MapNames == {"RiceFlooding", "RicePercolation", "RicePlantingDay1",
             "RiceHarvestDay1", "RicePlantingDay2", "RiceHarvestDay2"}

NoMaps ==
    [RiceFlooding |-> Unset, RicePercolation |-> Unset,
     RicePlantingDay1 |-> Unset, RiceHarvestDay1 |-> Unset,
     RicePlantingDay2 |-> Unset, RiceHarvestDay2 |-> Unset]

LoadedMaps == {n \in MapNames : maps[n] # Unset}

---------------------------------------------------------------------------
(* dynamic(): the pure part *)

\* variant: the marker 0 wrapped as well
wrapMut(x) == IF x <= 0 THEN DaysInYear + x ELSE x

\* np.where(x < 0, 365 + x, x)
wrap(x) == IF x < 0 THEN DaysInYear + x ELSE x

pl_20(m) == wrap(m.RicePlantingDay1 - 20)
pl_10(m) == wrap(m.RicePlantingDay1 - 10)
ha_20(m) == wrap(m.RiceHarvestDay1 - 20)
ha_10(m) == wrap(m.RiceHarvestDay1 - 10)

\* (CalendarDay >= start) & (CalendarDay < end)
InWindow(day, start, end) == day >= start /\ day < end

\* 0.1 * x, for a volume x that is a whole number of half m3
Tenth(x) == x \div 10

Maximum(a, b) == IF a >= b THEN a ELSE b

RiceSoilSaturationDemandM3(f) ==
    10 * ((f.WS1 - f.W1) * f.RiceFraction * f.MMtoM3 * f.DtDay)

SaturationMask(f, m) == InWindow(f.CalendarDay, pl_20(m), pl_10(m))

RiceSoilSaturationM3(f, m) ==
    IF SaturationMask(f, m) THEN Tenth(RiceSoilSaturationDemandM3(f)) ELSE 0

\* variant: the residual not floored at 0
RiceEvaMut(f) == f.EWRef - (f.ESAct + f.Ta)

RiceEva(f) == Maximum(f.EWRef - (f.ESAct + f.Ta), 0)

RiceEvaporationDemandM3(f) == 10 * (RiceEva(f) * f.RiceFraction * f.MMtoM3)

RiceFloodingDemandM3(f, m) ==
    10 * (m.RiceFlooding * f.RiceFraction * f.MMtoM3 * f.DtDay)

FloodingMask(f, m) == InWindow(f.CalendarDay, pl_10(m), m.RicePlantingDay1)

RiceFloodingM3(f, m) ==
    IF FloodingMask(f, m)
    THEN RiceFloodingDemandM3(f, m) + RiceEvaporationDemandM3(f)
    ELSE 0

\* variant: the water level kept until 10 days before harvest
GrowthMaskMut(f, m) == InWindow(f.CalendarDay, m.RicePlantingDay1, ha_10(m))

GrowthMask(f, m) == InWindow(f.CalendarDay, m.RicePlantingDay1, ha_20(m))

RiceEvaporationM3(f, m) ==
    IF GrowthMask(f, m) THEN RiceEvaporationDemandM3(f) ELSE 0

RicePercolationDemandM3(f, m) ==
    10 * (m.RicePercolation * f.RiceFraction * f.MMtoM3 * f.DtDay)

RicePercolationM3(f, m) ==
    IF GrowthMask(f, m) THEN RicePercolationDemandM3(f, m) ELSE 0

\* variant: the sign of the drained depth reversed
RiceDrainageDemandM3Mut(f) ==
    10 * ((f.WFC1 - f.WS1) * f.RiceFraction * f.MMtoM3 * f.DtDay)

RiceDrainageDemandM3(f) ==
    10 * ((f.WS1 - f.WFC1) * f.RiceFraction * f.MMtoM3 * f.DtDay)

DrainageMask(f, m) == InWindow(f.CalendarDay, ha_10(m), m.RiceHarvestDay1)

RiceDrainageM3(f, m) ==
    IF DrainageMask(f, m) THEN Tenth(RiceDrainageDemandM3(f)) ELSE 0

\* variant: the drainage counted as abstraction from surface water
AbstractionMut(f, m) ==
    RiceSoilSaturationM3(f, m) + RiceFloodingM3(f, m)
        + RiceEvaporationM3(f, m) + RicePercolationM3(f, m) + RiceDrainageM3(f, m)

\* PaddyRiceWaterAbstractionFromSurfaceWaterM3 (assigned before the drainage
\* term is computed)
Abstraction(f, m) ==
    RiceSoilSaturationM3(f, m) + RiceFloodingM3(f, m)
        + RiceEvaporationM3(f, m) + RicePercolationM3(f, m)

\* variant: the saturation and flooding water sent to the upper zone too
UZQuotientMut(f, m) ==
    IF f.SoilFraction = 0
    THEN NonFinite
    ELSE (2 * (RiceDrainageM3(f, m) + RicePercolationM3(f, m)
               + RiceSoilSaturationM3(f, m) + RiceFloodingM3(f, m)) * f.M3toMM)
             \div f.SoilFraction

\* (RiceDrainageM3 + RicePercolationM3) * M3toMM / SoilFraction: numpy evaluates
\* it for every cell, the cells with SoilFraction = 0 included
UZQuotient(f, m) ==
    IF f.SoilFraction = 0
    THEN NonFinite
    ELSE (2 * (RiceDrainageM3(f, m) + RicePercolationM3(f, m)) * f.M3toMM)
             \div f.SoilFraction

\* variant: the quotient taken for every cell
UZIncrementMut(f, m) == UZQuotient(f, m)

\* np.where(SoilFraction > 0.0, quotient, 0.0)
UZIncrement(f, m) == IF f.SoilFraction > 0 THEN UZQuotient(f, m) ELSE 0

\* UZ += increment
UZAdd(uz, inc) ==
    IF uz = NonFinite \/ inc = NonFinite THEN NonFinite ELSE uz + inc

Locals(f, m) ==
    [CalendarDay |-> f.CalendarDay,
     pl_20 |-> pl_20(m), pl_10 |-> pl_10(m),
     ha_20 |-> ha_20(m), ha_10 |-> ha_10(m),
     saturation |-> SaturationMask(f, m), flooding |-> FloodingMask(f, m),
     growth |-> GrowthMask(f, m), drainage |-> DrainageMask(f, m),
     RiceSoilSaturationM3 |-> RiceSoilSaturationM3(f, m),
     RiceFloodingM3 |-> RiceFloodingM3(f, m),
     RiceEvaporationM3 |-> RiceEvaporationM3(f, m),
     RicePercolationM3 |-> RicePercolationM3(f, m),
     RiceDrainageM3 |-> RiceDrainageM3(f, m),
     increment |-> UZIncrement(f, m)]

NoLocals ==
    [CalendarDay |-> Unset,
     pl_20 |-> Unset, pl_10 |-> Unset, ha_20 |-> Unset, ha_10 |-> Unset,
     saturation |-> FALSE, flooding |-> FALSE,
     growth |-> FALSE, drainage |-> FALSE,
     RiceSoilSaturationM3 |-> 0, RiceFloodingM3 |-> 0,
     RiceEvaporationM3 |-> 0, RicePercolationM3 |-> 0,
     RiceDrainageM3 |-> 0, increment |-> 0]

---------------------------------------------------------------------------
(* Input domains *)

Options == [riceIrrigation : BOOLEAN, wateruse : BOOLEAN]

NoForcing ==
    [CalendarDay |-> 1, W1 |-> 0, WS1 |-> 0, WFC1 |-> 0,
     EWRef |-> 0, ESAct |-> 0, Ta |-> 0,
     RiceFraction |-> 0, SoilFraction |-> 0,
     MMtoM3 |-> 0, M3toMM |-> 0, DtDay |-> 1]

NoTally == [satDays |-> 0, floodDays |-> 0, days |-> 0]

\* what loadmap may return for the six maps
MapSet(calendars, rates) ==
    {[RiceFlooding |-> r[1], RicePercolation |-> r[2],
      RicePlantingDay1 |-> c[1], RiceHarvestDay1 |-> c[2],
      RicePlantingDay2 |-> c[1], RiceHarvestDay2 |-> c[2]] :
        c \in calendars, r \in rates}

---------------------------------------------------------------------------
(* Operations *)

\* MaskInfo.instance().in_zero(), for the cell the model follows
in_zero == 0

\* initial(): if option['riceIrrigation']
RiceRequested(opt) == opt.riceIrrigation

\* variant: the water-use option not looked at
WaterUseOffMut(opt) == FALSE

\* initial(): if not option['wateruse']
WaterUseOff(opt) == ~opt.wateruse

initial(Maps) ==
    /\ pc = "constructed"
    /\ PaddyRiceWaterAbstractionFromSurfaceWaterM3' = in_zero
    /\ IF RiceRequested(option)
       THEN IF WaterUseOff(option)
            THEN pc' = "failed" /\ maps' = maps
            ELSE pc' = "initialised" /\ maps' \in Maps
       ELSE pc' = "initialised" /\ maps' = maps
    /\ UNCHANGED <<option, forcing, UZ, local, tally>>

\* the surrounding model before the first step: the inputs of the step, and UZ
\* as the other modules left it
SetForcing(Forcings, UZValues) ==
    /\ pc = "initialised"
    /\ forcing' \in Forcings
    /\ UZ' \in UZValues
    /\ local' = NoLocals
    /\ pc' = "forced"
    /\ UNCHANGED <<option, maps, PaddyRiceWaterAbstractionFromSurfaceWaterM3, tally>>

\* the calendar day after day, the year being DaysInYear days long
Tomorrow(day) == IF day = DaysInYear THEN 1 ELSE day + 1

\* UZ as the groundwater module leaves it for the next step: carried over while
\* it lies in 0..MaxUZ, emptied otherwise
Carried(uz) == IF uz \in 0..MaxUZ THEN uz ELSE 0

\* the surrounding model between two steps: the calendar advances by a day
NextDay ==
    /\ pc = "stepped"
    /\ forcing' = [forcing EXCEPT !.CalendarDay = Tomorrow(@)]
    /\ UZ' = Carried(UZ)
    /\ local' = NoLocals
    /\ pc' = "forced"
    /\ UNCHANGED <<option, maps, PaddyRiceWaterAbstractionFromSurfaceWaterM3, tally>>

\* variant: the step made whatever the option says
DynamicEnabledMut(opt) == TRUE

\* dynamic(): if option['riceIrrigation']
DynamicEnabled(opt) == opt.riceIrrigation

dynamic ==
    /\ pc = "forced"
    /\ pc' = "stepped"
    /\ IF DynamicEnabled(option)
       THEN /\ local' = Locals(forcing, maps)
            /\ PaddyRiceWaterAbstractionFromSurfaceWaterM3' = Abstraction(forcing, maps)
            /\ UZ' = UZAdd(UZ, UZIncrement(forcing, maps))
       ELSE UNCHANGED <<local, PaddyRiceWaterAbstractionFromSurfaceWaterM3, UZ>>
    /\ UNCHANGED <<option, maps, forcing, tally>>

\* observer of a year of steps: the days counted so far, a new count starting
\* once DaysInYear days are counted
Counted(t, l) ==
    LET base == IF t.days = DaysInYear THEN NoTally ELSE t
    IN  [satDays |-> base.satDays + (IF l.saturation THEN 1 ELSE 0),
         floodDays |-> base.floodDays + (IF l.flooding THEN 1 ELSE 0),
         days |-> base.days + 1]

\* the surrounding model between two steps of a year that is swept day by day;
\* the temporaries of the step just made stay visible until the next one
NextDayOfYear ==
    /\ pc = "stepped"
    /\ forcing' = [forcing EXCEPT !.CalendarDay = Tomorrow(@)]
    /\ UZ' = Carried(UZ)
    /\ tally' = Counted(tally, local)
    /\ pc' = "forced"
    /\ UNCHANGED <<option, maps, PaddyRiceWaterAbstractionFromSurfaceWaterM3, local>>

InitWith(Opts) ==
    /\ pc = "constructed"
    /\ option \in Opts
    /\ maps = NoMaps
    /\ forcing = NoForcing
    /\ PaddyRiceWaterAbstractionFromSurfaceWaterM3 = Unset
    /\ UZ = 0
    /\ local = NoLocals
    /\ tally = NoTally

-------------------------------------------------------------------------------------------------------------------------------------------------
(* The worked scenario of the module's documentation: half the cell under   *)
(* rice, MMtoM3 = 1000, daily steps, planting on day 100, harvest on 200.   *)

ScenarioMap ==
    [RiceFlooding |-> 10, RicePercolation |-> 2,
     RicePlantingDay1 |-> 100, RiceHarvestDay1 |-> 200,
     RicePlantingDay2 |-> 100, RiceHarvestDay2 |-> 200]

ScenarioForcings(days) ==
    [CalendarDay : days, W1 : {250}, WS1 : {300}, WFC1 : {200},
     EWRef : {5}, ESAct : {1}, Ta : {1},
     RiceFraction : {1}, SoilFraction : {2},
     MMtoM3 : {1000}, M3toMM : {1}, DtDay : {1}]

\* planting and harvest days: a season without wraparound, a planting day whose
\* markers wrap, a season across the year boundary
Calendars == {<<100, 200>>, <<5, 200>>, <<350, 15>>}

Rates == {<<0, 0>>, <<1, 2>>}

---------------------------------------------------------------------------
(* Spec: every setting of the two options *)

BaseMaps == MapSet(Calendars, Rates)

BaseForcings ==
    [CalendarDay : Days, W1 : {0}, WS1 : 0..MaxSoil, WFC1 : {0},
     EWRef : {0, 1}, ESAct : {0}, Ta : {0},
     RiceFraction : {0, 1}, SoilFraction : {0, 2},
     MMtoM3 : {1}, M3toMM : {1}, DtDay : {1}]

Init == InitWith(Options)

Next ==
    \/ initial(BaseMaps)
    \/ SetForcing(BaseForcings, 0..MaxUZ)
    \/ NextDay
    \/ dynamic

Spec == Init /\ [][Next]_vars

---------------------------------------------------------------------------
(* SpecAbstraction: the abstraction output, both options on *)

BothOn == {[riceIrrigation |-> TRUE, wateruse |-> TRUE]}

AbstractionMaps == MapSet({<<100, 200>>, <<5, 200>>}, Rates) \cup {ScenarioMap}

AbstractionForcings ==
    [CalendarDay : Days, W1 : 0..MaxSoil, WS1 : 0..MaxSoil, WFC1 : {0},
     EWRef : 0..MaxEva, ESAct : 0..MaxEva, Ta : {0, 1},
     RiceFraction : {0, 1}, SoilFraction : {2},
     MMtoM3 : {1}, M3toMM : {1}, DtDay : {1, 2}]
        \cup ScenarioForcings(Days)

InitAbstraction == InitWith(BothOn)

NextAbstraction ==
    \/ initial(AbstractionMaps)
    \/ SetForcing(AbstractionForcings, {0})
    \/ NextDay
    \/ dynamic

SpecAbstraction == InitAbstraction /\ [][NextAbstraction]_vars

---------------------------------------------------------------------------
(* SpecUZ: the upper-zone update, both options on *)

UZMaps == MapSet({<<100, 200>>, <<350, 15>>}, Rates)

UZForcings ==
    [CalendarDay : Days, W1 : {0}, WS1 : 0..MaxSoil, WFC1 : 0..MaxSoil,
     EWRef : {1}, ESAct : {0}, Ta : {0},
     RiceFraction : {0, 1, 2}, SoilFraction : {0, 1, 2},
     MMtoM3 : {1}, M3toMM : {1, 2}, DtDay : {1}]

InitUZ == InitWith(BothOn)

NextUZ ==
    \/ initial(UZMaps)
    \/ SetForcing(UZForcings, 0..MaxUZ)
    \/ NextDay
    \/ dynamic

SpecUZ == InitUZ /\ [][NextUZ]_vars

---------------------------------------------------------------------------
(* SpecYear: a year swept day by day, for every planting day *)

\* every planting day, with the harvest 21 or 100 days later (across the year
\* boundary where it falls there)
YearCalendars ==
    {<<p, ((p + s - 1) % DaysInYear) + 1>> : p \in Days, s \in {21, 100}}

YearMaps == MapSet(YearCalendars, {<<10, 2>>})

InitYear == InitWith(BothOn)

NextYear ==
    \/ initial(YearMaps)
    \/ SetForcing(ScenarioForcings({1}), {0})
    \/ NextDayOfYear
    \/ dynamic

SpecYear == InitYear /\ [][NextYear]_vars

---------------------------------------------------------------------------
(* Properties *)

Stepped == pc = "stepped"

\* a dynamic() call
DynamicStep == pc = "forced" /\ pc' = "stepped"

BitsSet(l) ==
    (IF l.saturation THEN 1 ELSE 0) + (IF l.flooding THEN 1 ELSE 0)
        + (IF l.growth THEN 1 ELSE 0) + (IF l.drainage THEN 1 ELSE 0)

\* C1: initial() ends in the configuration error exactly when riceIrrigation is
\* on and wateruse is off; then none of the six maps is loaded; in every other
\* case initial() completes.
C1_ErrorExactlyWhenWaterUseMissing ==
    pc # "constructed" =>
        /\ (pc = "failed") <=> (option.riceIrrigation /\ ~option.wateruse)
        /\ pc = "failed" => LoadedMaps = {}
        /\ pc # "failed" => pc \in {"initialised", "forced", "stepped"}

C1_Witness ==
    /\ pc = "failed"
    /\ option.riceIrrigation /\ ~option.wateruse
    /\ LoadedMaps = {}
    /\ PaddyRiceWaterAbstractionFromSurfaceWaterM3 = 0

\* C2: with riceIrrigation off, after initial() and any number of dynamic()
\* steps the output is zero, no map is loaded, and no dynamic() step changes UZ.
C2_FeatureOffDoesNothing ==
    /\ [](~option.riceIrrigation /\ pc # "constructed" =>
            /\ PaddyRiceWaterAbstractionFromSurfaceWaterM3 = 0
            /\ LoadedMaps = {})
    /\ [][~option.riceIrrigation /\ DynamicStep => UZ' = UZ]_vars

C2_Witness ==
    /\ Stepped /\ ~option.riceIrrigation
    /\ forcing.WS1 > forcing.W1 /\ forcing.EWRef > 0
    /\ forcing.RiceFraction > 0 /\ forcing.SoilFraction > 0
    /\ forcing.CalendarDay = 85
    /\ UZ > 0
    /\ PaddyRiceWaterAbstractionFromSurfaceWaterM3 = 0

\* C3, as claimed: with riceIrrigation on the output of dynamic() is never
\* negative, whatever W1 and WS1 are.
C3_OutputNeverNegative ==
    Stepped /\ option.riceIrrigation =>
        PaddyRiceWaterAbstractionFromSurfaceWaterM3 >= 0

\* C3, amended: with riceIrrigation on and W1 <= WS1 the output of dynamic() is
\* never negative, whatever the evaporation inputs are.
C3_OutputNonNegativeBelowSaturation ==
    Stepped /\ option.riceIrrigation /\ forcing.W1 <= forcing.WS1 =>
        PaddyRiceWaterAbstractionFromSurfaceWaterM3 >= 0

C3_Witness ==
    /\ Stepped /\ option.riceIrrigation
    /\ forcing.W1 <= forcing.WS1
    /\ forcing.EWRef < forcing.ESAct + forcing.Ta
    /\ forcing.RiceFraction > 0
    /\ local.growth
    /\ maps.RicePercolation = 0
    /\ PaddyRiceWaterAbstractionFromSurfaceWaterM3 = 0

MarkerAsClaimed(day, offset, marker) ==
    /\ marker \in 1..DaysInYear
    /\ marker = IF day > offset THEN day - offset ELSE DaysInYear + day - offset

MarkerAsComputed(day, offset, marker) ==
    /\ marker \in 0..(DaysInYear - 1)
    /\ marker = IF day >= offset THEN day - offset ELSE DaysInYear + day - offset

\* C4, as claimed: each marker lies in 1..365 and equals day - offset when
\* day > offset, else 365 + day - offset.
C4_MarkersWithinYear ==
    Stepped =>
        /\ MarkerAsClaimed(maps.RicePlantingDay1, 20, local.pl_20)
        /\ MarkerAsClaimed(maps.RicePlantingDay1, 10, local.pl_10)
        /\ MarkerAsClaimed(maps.RiceHarvestDay1, 20, local.ha_20)
        /\ MarkerAsClaimed(maps.RiceHarvestDay1, 10, local.ha_10)

\* C4, amended: each marker lies in 0..364 and equals day - offset when
\* day >= offset (0 when day = offset), else 365 + day - offset.
C4_MarkersWrapBelowZero ==
    Stepped =>
        /\ MarkerAsComputed(maps.RicePlantingDay1, 20, local.pl_20)
        /\ MarkerAsComputed(maps.RicePlantingDay1, 10, local.pl_10)
        /\ MarkerAsComputed(maps.RiceHarvestDay1, 20, local.ha_20)
        /\ MarkerAsComputed(maps.RiceHarvestDay1, 10, local.ha_10)

C4_Witness ==
    /\ Stepped
    /\ maps.RicePlantingDay1 = 20
    /\ local.pl_20 = 0 /\ local.pl_10 = 10

\* C5: a dynamic() step leaves UZ as it was in a cell with SoilFraction = 0:
\* the update is exactly 0 and no non-finite value is stored.
C5_ZeroFractionLeavesUZ ==
    [][DynamicStep /\ forcing.SoilFraction = 0 =>
          UZ' = UZ /\ UZ' # NonFinite /\ local'.increment = 0]_vars

C5_Witness ==
    /\ Stepped
    /\ forcing.SoilFraction = 0
    /\ local.RiceDrainageM3 + local.RicePercolationM3 > 0
    /\ local.increment = 0
    /\ UZ \in 0..MaxUZ

\* C6, as claimed: no dynamic() step lowers UZ, whatever WS1 and WFC1 are.
C6_UZNeverDecremented == [][DynamicStep => UZ' >= UZ]_vars

\* C6, amended: no dynamic() step lowers UZ in a cell with WFC1 <= WS1.
C6_UZNotDecrementedAboveFieldCapacity ==
    [][DynamicStep /\ forcing.WFC1 <= forcing.WS1 => UZ' >= UZ]_vars

C6_Witness ==
    /\ Stepped
    /\ forcing.WFC1 < forcing.WS1
    /\ local.drainage
    /\ local.RiceDrainageM3 > 0
    /\ local.increment > 0
    /\ UZ >= local.increment

OnlySaturation(l) == l.saturation /\ ~l.flooding /\ ~l.growth /\ ~l.drainage

OnlyDrainage(l) == l.drainage /\ ~l.saturation /\ ~l.flooding /\ ~l.growth

\* C7: the output is the sum of the saturation, flooding, evaporation and
\* percolation terms; on a day in the saturation window only it is
\* 0.1 * (WS1 - W1) * RiceFraction * MMtoM3 * DtDay (2500 m3 in the scenario on
\* day 85); on a day in the drainage window only it is 0.
\* (Volumes are in twentieths of a m3 and RiceFraction in halves, so the
\* factors 0.1 and 1/2 become the factor 1.)
C7_OutputIsSumOfFourTerms ==
    Stepped /\ option.riceIrrigation =>
        /\ PaddyRiceWaterAbstractionFromSurfaceWaterM3
              = local.RiceSoilSaturationM3 + local.RiceFloodingM3
                  + local.RiceEvaporationM3 + local.RicePercolationM3
        /\ OnlySaturation(local) =>
              PaddyRiceWaterAbstractionFromSurfaceWaterM3
                  = (forcing.WS1 - forcing.W1) * forcing.RiceFraction
                        * forcing.MMtoM3 * forcing.DtDay
        /\ (maps = ScenarioMap /\ forcing \in ScenarioForcings({85})) =>
              PaddyRiceWaterAbstractionFromSurfaceWaterM3 = 20 * 2500
        /\ OnlyDrainage(local) =>
              PaddyRiceWaterAbstractionFromSurfaceWaterM3 = 0

C7_Witness ==
    /\ Stepped
    /\ maps = ScenarioMap
    /\ forcing \in ScenarioForcings({85})
    /\ OnlySaturation(local)
    /\ PaddyRiceWaterAbstractionFromSurfaceWaterM3 = 20 * 2500

NonWrapped ==
    /\ 20 < maps.RicePlantingDay1
    /\ maps.RicePlantingDay1 < maps.RiceHarvestDay1 - 20
    /\ maps.RiceHarvestDay1 <= DaysInYear

PhaseOf(l) ==
    CASE l.saturation -> "Saturating"
      [] l.flooding -> "Flooding"
      [] l.growth -> "Growing"
      [] l.drainage -> "Draining"
      [] OTHER -> "Idle"

\* the phase, the ten days [ha_20, ha_10) that no window contains told apart
PhaseWithDryDown(l) ==
    IF PhaseOf(l) = "Idle" /\ l.CalendarDay >= l.ha_20 /\ l.CalendarDay < l.ha_10
    THEN "DryDown"
    ELSE PhaseOf(l)

OrderAsClaimed ==
    {<<"Idle", "Saturating">>, <<"Saturating", "Flooding">>,
     <<"Flooding", "Growing">>, <<"Growing", "Draining">>,
     <<"Draining", "Idle">>}

OrderWithDryDown ==
    {<<"Idle", "Saturating">>, <<"Saturating", "Flooding">>,
     <<"Flooding", "Growing">>, <<"Growing", "DryDown">>,
     <<"DryDown", "Draining">>, <<"Draining", "Idle">>}

\* on every day at most one window contains the day, and the output is zero
\* before planting - 20 and from harvest - 20 on
WindowsExclusiveAndOutputZeroOutside ==
    Stepped /\ NonWrapped =>
        /\ BitsSet(local) <= 1
        /\ (\/ forcing.CalendarDay < maps.RicePlantingDay1 - 20
            \/ forcing.CalendarDay >= maps.RiceHarvestDay1 - 20) =>
              PaddyRiceWaterAbstractionFromSurfaceWaterM3 = 0

\* C8, as claimed: for a season without wraparound the windows are exclusive,
\* the output is zero outside [planting - 20, harvest - 20), and from one day
\* to the next the phase stays or moves along Idle, Saturating, Flooding,
\* Growing, Draining, Idle.
C8_PhasesInClaimedOrder ==
    /\ []WindowsExclusiveAndOutputZeroOutside
    /\ [][DynamicStep /\ NonWrapped =>
            \/ PhaseOf(local') = PhaseOf(local)
            \/ <<PhaseOf(local), PhaseOf(local')>> \in OrderAsClaimed]_vars

\* C8, amended: as claimed, except that the ten days [ha_20, ha_10) in which no
\* window contains the day lie between Growing and Draining: Idle, Saturating,
\* Flooding, Growing, DryDown, Draining, Idle.
C8_PhasesInOrderWithDryDown ==
    /\ []WindowsExclusiveAndOutputZeroOutside
    /\ [][DynamicStep /\ NonWrapped =>
            \/ PhaseWithDryDown(local') = PhaseWithDryDown(local)
            \/ <<PhaseWithDryDown(local), PhaseWithDryDown(local')>>
                  \in OrderWithDryDown]_vars

C8_Witness ==
    /\ Stepped /\ NonWrapped
    /\ PhaseOf(local) = "Draining"
    /\ local.RiceDrainageM3 > 0
    /\ UZ > 0
    /\ PaddyRiceWaterAbstractionFromSurfaceWaterM3 = 0
    /\ tally.satDays = 10 /\ tally.floodDays = 10

\* C9: with riceIrrigation on, a dynamic() step leaves UZ as it was on a day
\* outside the growth and drainage windows, and where SoilFraction > 0 it adds
\* (drainage term + percolation term) * M3toMM / SoilFraction.
\* (SoilFraction is in halves: the quotient is 2 * ... / SoilFraction.)
C9_UZChangesOnlyByDrainageAndPercolation ==
    [][DynamicStep /\ option.riceIrrigation =>
          /\ (/\ ~InWindow(forcing.CalendarDay, maps.RicePlantingDay1, local'.ha_20)
              /\ ~InWindow(forcing.CalendarDay, local'.ha_10, maps.RiceHarvestDay1))
                => UZ' = UZ
          /\ forcing.SoilFraction > 0 =>
                (UZ' - UZ) * forcing.SoilFraction
                    = 2 * (local'.RiceDrainageM3 + local'.RicePercolationM3)
                        * forcing.M3toMM]_vars

C9_Witness ==
    /\ Stepped /\ option.riceIrrigation
    /\ forcing.SoilFraction > 0
    /\ ~local.growth /\ ~local.drainage
    /\ local.RiceSoilSaturationM3 + local.RiceFloodingM3 > 0
    /\ local.increment = 0
    /\ UZ \in 1..MaxUZ

\* C10: over a year of steps, one per calendar day, the saturation phase is
\* active on exactly 10 days and the flooding phase on exactly 10 days, for
\* every planting day.
C10_TenDaysEach ==
    tally.days = DaysInYear => tally.satDays = 10 /\ tally.floodDays = 10

====
